---- MODULE Spec2Model ----
(***************************************************************************)
(* Model of the strimzi-registry-operator reconciliation core:             *)
(*   handlers/secretwatcher.py  handle_secret_change and its two           *)
(*                              reconcilers,                               *)
(*   deployments.py             update_deployment, get_kafka_bootstrap_    *)
(*                              server and its helpers,                    *)
(*   strimzi.py                 get_api_version.                           *)
(* Python dicts are TLA+ functions whose DOMAIN is the set of keys; a      *)
(* subscript on a key outside the DOMAIN is Python's KeyError.             *)
(***************************************************************************)
EXTENDS Integers, Sequences, FiniteSets, TLC

\* --------------------------------------------------------------- bounds
\* Number of certificate rotations Strimzi performs in one behaviour.
MaxRotations == 1

\* Highest Secret resourceVersion passed to a lone update_deployment call.
MaxSecretVersion == 2

\* Longest status.listeners list of a Kafka resource.
MaxStatusListeners == 2

\* ------------------------------------------------------------ vocabulary
\* state.cluster_name, set once at operator startup.
cluster_name == "events"
\* f"{state.cluster_name}-cluster-ca-cert"
CaSecretName == cluster_name \o "-cluster-ca-cert"
ClusterLabel == "strimzi.io/cluster"
\* The values state.registry_names may have been given at startup.
RegistrySets == {{"r1", "r2"}, {"r1", CaSecretName}}
\* Names a Secret event can carry.
SecretNames == {"r1", "r2", CaSecretName, "unrelated"}
\* The invocations of the handler by the delivery mechanism, one event each;
\* they run concurrently or one after the other.
Procs == {"h1", "h2"}

EmptyDict == [k \in {} |-> 0]
\* d[k] = v on a dict
Put(d, k, v) == [x \in (DOMAIN d) \cup {k} |-> IF x = k THEN v ELSE d[x]]

VARIABLES
    registry_names,   \* state.registry_names
    secrets,          \* store: Secret name -> data version (0: no such Secret)
    kafkausers,       \* store: KafkaUser records by name
    jks,              \* store: generated certificate Secrets by KafkaUser secret name
    deployments,      \* store: Deployment records by name
    rv,               \* store: last resourceVersion handed out
    h,                \* per invocation: position and locals of the handler
    rotations,        \* rotations performed so far
    resolver          \* a call of a resolution function (get_api_version or
                      \* get_kafka_bootstrap_server): arguments, outcome

vars == <<registry_names, secrets, kafkausers, jks, deployments, rv, h,
          rotations, resolver>>

\* ------------------------------------------------------ strimzi.py
\* The logger.warning call of lines 29-34, as the record it logs.
MissingVersionWarning(registry_name, strimzi_api_version) ==
    [text |-> "is missing a strimziVersion, using default",
     registry |-> registry_name, default |-> strimzi_api_version]

\* The logger.warning call of lines 23-26, as the record it logs.
DeprecatedVersionWarning ==
    [text |-> "The strimzi-version configuration is deprecated. Use strimziVersion instead."]

\* get_api_version looking the deprecated key up before strimziVersion.
get_api_version_deprecated_first(registry_name, spec) ==
    IF "strimzi-version" \in DOMAIN spec
    THEN [value |-> spec["strimzi-version"], warnings |-> <<>>]
    ELSE IF "strimziVersion" \in DOMAIN spec
         THEN [value |-> spec["strimziVersion"], warnings |-> <<>>]
         ELSE [value |-> "v1beta2",
               warnings |-> <<MissingVersionWarning(registry_name, "v1beta2")>>]

\* get_api_version: the value returned and the warnings logged on the way.
get_api_version(registry_name, spec) ==
    IF "strimziVersion" \in DOMAIN spec
    THEN [value |-> spec["strimziVersion"], warnings |-> <<>>]
    ELSE IF "strimzi-version" \in DOMAIN spec
         \* the return on line 22 leaves before the logger.warning of line 23
         THEN [value |-> spec["strimzi-version"], warnings |-> <<>>]
         ELSE [value |-> "v1beta2",
               warnings |-> <<MissingVersionWarning(registry_name, "v1beta2")>>]

\* ---------------------------------------------------- deployments.py
key_prefix == "strimziregistryoperator.roundtable.lsst.codes"
\* f"{key_prefix}/jksVersion"
secret_version_key == key_prefix \o "/jksVersion"
RevisionKey == "deployment.kubernetes.io/revision"

\* create_deployment: the manifest, reduced to its metadata and pod template
\* metadata (the container spec holds no versioned field).
create_deployment(name, secret_version) ==
    [metadata |-> [name |-> name, labels |-> [app |-> name]],
     spec |-> [template |-> [metadata |->
                  [labels |-> [app |-> name],
                   annotations |-> (secret_version_key :> secret_version)]]]]

\* The Deployment as the store holds it once created from the manifest: the
\* API server's object carries metadata.annotations (the deployment
\* controller's revision annotation).
LiveDeployment(name, secret_version) ==
    LET m == create_deployment(name, secret_version)
    IN  [metadata |-> [name |-> m.metadata.name, labels |-> m.metadata.labels,
                       annotations |-> (RevisionKey :> 1)],
         spec |-> m.spec]

\* update_deployment with the patch addressed to a fixed deployment instead
\* of the one named.
update_deployment_fixed_name(deployment, secret_version, name) ==
    LET body == [deployment EXCEPT
                   !.metadata.annotations = Put(@, secret_version_key, secret_version)]
    IN  <<[op |-> "patch_namespaced_deployment", name |-> "r1", body |-> body]>>

\* update_deployment that skips the patch when the annotation already holds
\* the version.
update_deployment_skip_unchanged(deployment, secret_version, name) ==
    IF /\ secret_version_key \in DOMAIN deployment.metadata.annotations
       /\ deployment.metadata.annotations[secret_version_key] = secret_version
    THEN <<>>
    ELSE <<[op |-> "patch_namespaced_deployment", name |-> name,
            body |-> [deployment EXCEPT !.metadata.annotations =
                        Put(@, secret_version_key, secret_version)]]>>

\* update_deployment that leaves the Deployment alone when the annotation it
\* fetched already holds a higher version.
update_deployment_keep_newer(deployment, secret_version, name) ==
    IF /\ secret_version_key \in DOMAIN deployment.metadata.annotations
       /\ deployment.metadata.annotations[secret_version_key] > secret_version
    THEN <<>>
    ELSE <<[op |-> "patch_namespaced_deployment", name |-> name,
            body |-> [deployment EXCEPT !.metadata.annotations =
                        Put(@, secret_version_key, secret_version)]]>>

\* update_deployment writing the Deployment's own revision in place of the
\* Secret version it was given.
update_deployment_own_revision(deployment, secret_version, name) ==
    LET body == [deployment EXCEPT
                   !.metadata.annotations =
                      Put(@, secret_version_key, @[RevisionKey])]
    IN  <<[op |-> "patch_namespaced_deployment", name |-> name, body |-> body]>>

\* update_deployment: the API calls it issues, in order. It assigns the
\* annotation on the fetched object (line 311) and patches with that object
\* as the body (lines 313-316), unconditionally.
update_deployment(deployment, secret_version, name) ==
    LET body == [deployment EXCEPT
                   !.metadata.annotations = Put(@, secret_version_key, secret_version)]
    IN  <<[op |-> "patch_namespaced_deployment", name |-> name, body |-> body]>>

\* dict-wise merge of a patch body's annotations into the stored ones.
MergeDict(old, new) ==
    [k \in (DOMAIN old) \cup (DOMAIN new) |-> IF k \in DOMAIN new THEN new[k] ELSE old[k]]

\* AppsV1Api.patch_namespaced_deployment: merges the body into the stored
\* object of that name (last write wins, field by field).
patch_namespaced_deployment(store, call) ==
    IF call.name \notin DOMAIN store THEN store
    ELSE [store EXCEPT ![call.name] =
            [metadata |-> [name |-> @.metadata.name, labels |-> @.metadata.labels,
                           annotations |-> MergeDict(@.metadata.annotations,
                                                     call.body.metadata.annotations)],
             spec |-> [template |-> [metadata |->
                         [labels |-> @.spec.template.metadata.labels,
                          annotations |->
                             MergeDict(@.spec.template.metadata.annotations,
                                       call.body.spec.template.metadata.annotations)]]]]]

\* ------------------------- deployments.py: get_kafka_bootstrap_server
\* ", ".join(seq)
RECURSIVE Join(_, _)
Join(seq, sep) ==
    IF seq = <<>> THEN ""
    ELSE IF Len(seq) = 1 THEN seq[1]
    ELSE seq[1] \o sep \o Join(Tail(seq), sep)

\* repr() of a list of str, as an f-string prints it: ['a', 'b']
RECURSIVE Quoted(_)
Quoted(seq) ==
    IF seq = <<>> THEN <<>> ELSE <<"'" \o seq[1] \o "'">> \o Quoted(Tail(seq))
ListRepr(seq) == "[" \o Join(Quoted(seq), ", ") \o "]"

\* Outcomes of a call: a returned value or a raised exception. delay is <<>>
\* when the exception was given none.
Returned(value) == [kind |-> "return", value |-> value]
Raised(kind, msg, delay) == [kind |-> kind, msg |-> msg, delay |-> delay]

\* _format_server_address computing the address from addresses[0] whenever
\* there is one, and using bootstrapServers only otherwise.
_format_server_address_addresses_first(listener_status) ==
    IF "addresses" \in DOMAIN listener_status /\ listener_status["addresses"] # <<>>
    THEN LET address == listener_status["addresses"][1]
         IN  Returned(address["host"] \o ":" \o ToString(address["port"]))
    ELSE IF "bootstrapServers" \in DOMAIN listener_status
         THEN Returned(listener_status["bootstrapServers"])
         ELSE Raised("KeyError", "addresses", <<>>)

\* _format_server_address, lines 84-92.
_format_server_address(listener_status) ==
    IF "bootstrapServers" \in DOMAIN listener_status
    THEN Returned(listener_status["bootstrapServers"])
    ELSE IF "addresses" \notin DOMAIN listener_status
         THEN Raised("KeyError", "addresses", <<>>)
         ELSE IF listener_status["addresses"] = <<>>
              THEN Raised("IndexError", "list index out of range", <<>>)
              ELSE LET address == listener_status["addresses"][1]
                   IN  Returned(address["host"] \o ":" \o ToString(address["port"]))

\* kafka["status"]["listeners"] raises KeyError (lines 53, 99).
NoStatusListeners(kafka) ==
    \/ "status" \notin DOMAIN kafka
    \/ "listeners" \notin DOMAIN kafka["status"]

\* The loop of lines 106-112 without the except clause: the lookup error of
\* an entry ends the scan.
RECURSIVE V1beta1Scan_no_skip(_, _, _)
V1beta1Scan_no_skip(listeners_status, listener_type, i) ==
    IF i > Len(listeners_status) THEN <<>>
    ELSE LET listener_status == listeners_status[i]
             next == V1beta1Scan_no_skip(listeners_status, listener_type, i + 1)
         IN  IF "type" \notin DOMAIN listener_status
             THEN <<Raised("KeyError", "type", <<>>)>>
             ELSE IF listener_status["type"] = listener_type
                  THEN <<_format_server_address(listener_status)>>
                  ELSE next

\* The loop of lines 106-112 matching an entry by its name field (falling
\* back to its type when it has no name).
RECURSIVE V1beta1Scan_by_name(_, _, _)
V1beta1Scan_by_name(listeners_status, listener_type, i) ==
    IF i > Len(listeners_status) THEN <<>>
    ELSE LET listener_status == listeners_status[i]
             next == V1beta1Scan_by_name(listeners_status, listener_type, i + 1)
             key == IF "name" \in DOMAIN listener_status THEN "name" ELSE "type"
         IN  IF key \notin DOMAIN listener_status THEN next
             ELSE IF listener_status[key] = listener_type
                  THEN LET r == _format_server_address(listener_status)
                       IN  IF r.kind = "return" THEN <<r>> ELSE next
                  ELSE next

\* The loop of lines 106-112 from entry i on: the first entry of the wanted
\* type that formats; an entry whose lookup raises KeyError or IndexError is
\* passed over. <<>> when the loop ends without returning.
RECURSIVE V1beta1Scan(_, _, _)
V1beta1Scan(listeners_status, listener_type, i) ==
    IF i > Len(listeners_status) THEN <<>>
    ELSE LET listener_status == listeners_status[i]
             next == V1beta1Scan(listeners_status, listener_type, i + 1)
         IN  IF "type" \notin DOMAIN listener_status THEN next       \* KeyError
             ELSE IF listener_status["type"] = listener_type
                  THEN LET r == _format_server_address(listener_status)
                       IN  IF r.kind = "return" THEN <<r>> ELSE next
                  ELSE next

\* listener.get("type", "UNKNOWN") for each entry, line 114-116.
RECURSIVE TypesOrUnknown(_)
TypesOrUnknown(listeners_status) ==
    IF listeners_status = <<>> THEN <<>>
    ELSE <<IF "type" \in DOMAIN Head(listeners_status)
           THEN Head(listeners_status)["type"] ELSE "UNKNOWN">>
         \o TypesOrUnknown(Tail(listeners_status))

\* _get_v1beta1_bootstrap_server, lines 95-121.
_get_v1beta1_bootstrap_server(kafka, listener_type) ==
    IF NoStatusListeners(kafka)
    THEN Raised("TemporaryError",
                "Could not get status.listeners from Kafka resource.", <<10>>)
    ELSE LET listeners_status == kafka["status"]["listeners"]
             found == V1beta1Scan(listeners_status, listener_type, 1)
         IN  IF found # <<>> THEN found[1]
             ELSE Raised("TemporaryError",
                         "Could not find address of a " \o listener_type
                         \o " listenerfrom the Kafka resource. Available types: "
                         \o ListRepr(TypesOrUnknown(listeners_status)),
                         <<10>>)

\* The keys of the dict comprehension of lines 42-45, in insertion order: a
\* name declared twice keeps its first place.
RECURSIVE ListenerNames(_)
ListenerNames(spec_listeners) ==
    IF spec_listeners = <<>> THEN <<>>
    ELSE LET n == Len(spec_listeners)
             before == ListenerNames(SubSeq(spec_listeners, 1, n - 1))
             name == spec_listeners[n]["name"]
         IN  IF \E i \in DOMAIN before : before[i] = name THEN before
             ELSE Append(before, name)

\* listener_types[listener_name] of that dict: a name declared twice maps to
\* the type declared last.
ListenerType(spec_listeners, listener_name) ==
    LET last == CHOOSE i \in DOMAIN spec_listeners :
                   /\ spec_listeners[i]["name"] = listener_name
                   /\ \A j \in DOMAIN spec_listeners :
                         spec_listeners[j]["name"] = listener_name => j <= i
    IN  spec_listeners[last]["type"]

\* The loop of lines 60-74 with the comparison of types made only for an
\* entry that has no name field.
RECURSIVE V1beta2Scan_nameless_fallback(_, _, _, _)
V1beta2Scan_nameless_fallback(listeners, listener_name, listener_type, i) ==
    IF i > Len(listeners) THEN <<>>
    ELSE LET listener == listeners[i]
             next == V1beta2Scan_nameless_fallback(listeners, listener_name,
                                                   listener_type, i + 1)
             r == _format_server_address(listener)
         IN  IF "name" \in DOMAIN listener
             THEN IF listener["name"] = listener_name /\ r.kind = "return"
                  THEN <<r>> ELSE next
             ELSE IF "type" \notin DOMAIN listener THEN next
             ELSE IF listener["type"] = listener_type
                  THEN IF r.kind = "return" THEN <<r>> ELSE next
                  ELSE next

\* The loop of lines 60-74 from entry i on.
RECURSIVE V1beta2Scan(_, _, _, _)
V1beta2Scan(listeners, listener_name, listener_type, i) ==
    IF i > Len(listeners) THEN <<>>
    ELSE LET listener == listeners[i]
             next == V1beta2Scan(listeners, listener_name, listener_type, i + 1)
             r == _format_server_address(listener)
         IN  IF "name" \in DOMAIN listener /\ listener["name"] = listener_name
             THEN IF r.kind = "return" THEN <<r>> ELSE next
             ELSE IF "type" \notin DOMAIN listener THEN next          \* KeyError
             ELSE IF listener["type"] = listener_type
                  THEN IF r.kind = "return" THEN <<r>> ELSE next
                  ELSE next

\* The test of line 46 on the dict of lines 42-45.
UnknownListener(kafka, listener_name) ==
    LET names == ListenerNames(kafka["spec"]["kafka"]["listeners"])
    IN  ~ \E i \in DOMAIN names : names[i] = listener_name

\* The raise of lines 47-50; kopf.TemporaryError is given no delay.
UnknownListenerError(kafka, listener_name) ==
    Raised("TemporaryError",
           "Listener named " \o listener_name
           \o " is not known. Available listeners are "
           \o Join(ListenerNames(kafka["spec"]["kafka"]["listeners"]), ", "),
           <<>>)

\* The raise of lines 55-58 with the delay left out.
MissingStatusError_no_delay ==
    Raised("TemporaryError",
           "Could not get status.listeners from Kafka resource.", <<>>)

\* The raise of lines 55-58.
MissingStatusError ==
    Raised("TemporaryError",
           "Could not get status.listeners from Kafka resource.", <<10>>)

\* Lines 60-81: the scan of status.listeners and the error after it.
ScanStatusListeners(kafka, listener_name) ==
    LET listeners == kafka["status"]["listeners"]
        listener_type == ListenerType(kafka["spec"]["kafka"]["listeners"],
                                      listener_name)
        found == V1beta2Scan(listeners, listener_name, listener_type, 1)
    IN  IF found # <<>> THEN found[1]
        \* listener.get("type") is None for an entry without type, and
        \* str.join raises TypeError on it (lines 76-79)
        ELSE IF \E i \in DOMAIN listeners : "type" \notin DOMAIN listeners[i]
        THEN Raised("TypeError", "sequence item: expected str instance", <<>>)
        ELSE Raised("Error",
                    "Could not find address of a listener named "
                    \o listener_name
                    \o " from the Kafka resource. Available names: "
                    \o Join(TypesOrUnknown(listeners), ", "),
                    <<10>>)

\* get_kafka_bootstrap_server reading status.listeners before it looks the
\* listener name up in the spec.
get_kafka_bootstrap_server_status_first(kafka, listener_name) ==
    IF kafka["apiVersion"] = "kafka.strimzi.io/v1beta1"
    THEN _get_v1beta1_bootstrap_server(kafka, listener_name)
    ELSE IF NoStatusListeners(kafka) THEN MissingStatusError
    ELSE IF UnknownListener(kafka, listener_name)
    THEN UnknownListenerError(kafka, listener_name)
    ELSE ScanStatusListeners(kafka, listener_name)

\* get_kafka_bootstrap_server, lines 10-81.
get_kafka_bootstrap_server(kafka, listener_name) ==
    IF kafka["apiVersion"] = "kafka.strimzi.io/v1beta1"
    THEN _get_v1beta1_bootstrap_server(kafka, listener_name)
    ELSE IF UnknownListener(kafka, listener_name)
    THEN UnknownListenerError(kafka, listener_name)
    ELSE IF NoStatusListeners(kafka) THEN MissingStatusError
    ELSE ScanStatusListeners(kafka, listener_name)

\* No call of the resolver is under way.
NoCall == [pc |-> "none"]

\* ------------------------------------------- the cluster-state store
\* A keyword argument left at its default None.
None == [none |-> TRUE]

\* k8s.get_ssr: the StrimziSchemaRegistry resource of that name. r1 sets the
\* new key, r2 the deprecated one, the third neither.
get_ssr(name) ==
    [metadata |-> [name |-> name],
     spec |-> CASE name = "r1" -> ("strimziVersion" :> "v1beta2")
                [] name = "r2" -> ("strimzi-version" :> "v1beta1")
                [] OTHER -> ("listener" :> "tls")]

\* A KafkaUser whose status Strimzi has populated, and one it has not yet.
ReadyKafkaUser(name) ==
    [metadata |-> [name |-> name], status |-> [secret |-> name]]
PendingKafkaUser(name) == [metadata |-> [name |-> name]]

\* k8s.get_kafka_user: the KafkaUser of that name, in the given API version.
get_kafka_user(name, strimzi_api_version) == kafkausers[name]

\* k8s.get_deployment
get_deployment(name) == deployments[name]

\* certprocessor.create_secret: builds the keystore/truststore Secret from
\* the cluster CA and the client certificate, each taken from the argument
\* when given and read from the store by name otherwise; the store gives the
\* written Secret a fresh resourceVersion.
create_secret(kafka_user_secret_name, cluster, cluster_ca_secret, client_secret) ==
    [metadata |-> [name |-> kafka_user_secret_name \o "-jks",
                   resourceVersion |-> rv + 1],
     ca |-> IF cluster_ca_secret = None
            THEN secrets[cluster \o "-cluster-ca-cert"]
            ELSE cluster_ca_secret.data,
     client |-> IF client_secret = None
                THEN secrets[kafka_user_secret_name]
                ELSE client_secret.data]

\* ------------------------------------------- handlers/secretwatcher.py
EventTypes == {"ADDED", "MODIFIED", "DELETED"}

\* The metadata a Secret of that name can carry: no labels, labels without
\* the cluster key, the cluster key of this cluster, of another cluster.
Metas(name) ==
    {[name |-> name],
     [name |-> name, labels |-> EmptyDict],
     [name |-> name, labels |-> (ClusterLabel :> cluster_name)],
     [name |-> name, labels |-> (ClusterLabel :> "other")]}

\* handle_secret_change without the event-type test of lines 28-29.
Dispatch_no_type_test(type, meta, name) ==
    IF "labels" \notin DOMAIN meta THEN <<>>
    ELSE IF ClusterLabel \notin DOMAIN meta.labels THEN <<>>
    ELSE IF meta.labels[ClusterLabel] # cluster_name THEN <<>>
    ELSE IF name = CaSecretName THEN <<"refresh_with_new_cluster_ca">>
    ELSE IF name \in registry_names THEN <<"refresh_with_new_client_secret">>
    ELSE <<>>

\* handle_secret_change testing the name against registry_names before it
\* tests it against the cluster CA Secret's name.
Dispatch_registry_first(type, meta, name) ==
    IF type \notin {"ADDED", "MODIFIED"} THEN <<>>
    ELSE IF "labels" \notin DOMAIN meta THEN <<>>
    ELSE IF ClusterLabel \notin DOMAIN meta.labels THEN <<>>
    ELSE IF meta.labels[ClusterLabel] # cluster_name THEN <<>>
    ELSE IF name \in registry_names THEN <<"refresh_with_new_client_secret">>
    ELSE IF name = CaSecretName THEN <<"refresh_with_new_cluster_ca">>
    ELSE <<>>

\* handle_secret_change, lines 28-49: the reconcilers it calls, in order.
Dispatch(type, meta, name) ==
    IF type \notin {"ADDED", "MODIFIED"} THEN <<>>
    ELSE IF "labels" \notin DOMAIN meta THEN <<>>              \* KeyError
    ELSE IF ClusterLabel \notin DOMAIN meta.labels THEN <<>>   \* KeyError
    ELSE IF meta.labels[ClusterLabel] # cluster_name THEN <<>>
    ELSE IF name = CaSecretName THEN <<"refresh_with_new_cluster_ca">>
    ELSE IF name \in registry_names THEN <<"refresh_with_new_client_secret">>
    ELSE <<>>

\* Locals of an invocation that is not running.
IdleLocals ==
    [pc |-> "idle", type |-> "", body |-> EmptyDict, route |-> <<>>,
     todo |-> {}, registry_name |-> "", strimzi_api_version |-> "",
     kafka_user_secret_name |-> "", secret_version |-> 0,
     deployment |-> EmptyDict,
     attempts |-> <<>>,     \* history: registries whose refresh was begun
     generated |-> <<>>,    \* history: Secrets create_secret returned
     calls |-> <<>>,        \* history: API write calls issued
     error |-> ""]

store == <<registry_names, secrets, kafkausers, jks, deployments, rv>>

Init ==
    /\ registry_names \in RegistrySets
    /\ secrets = [n \in SecretNames |-> 1]
    /\ \E pending \in SUBSET registry_names :
          /\ kafkausers = [n \in registry_names |->
                             IF n \in pending THEN PendingKafkaUser(n)
                             ELSE ReadyKafkaUser(n)]
    /\ jks = [n \in registry_names |->
                [metadata |-> [name |-> n \o "-jks", resourceVersion |-> 0],
                 ca |-> 1, client |-> 1]]
    /\ deployments = [n \in registry_names |-> LiveDeployment(n, 0)]
    /\ rv = 0
    /\ h = [p \in Procs |-> IdleLocals]
    /\ rotations = 0
    /\ resolver = NoCall

\* The event delivery mechanism invokes handle_secret_change(p) with one
\* Secret event; the body is the Secret as of the event, which may be older
\* than the Secret the store now holds. Lines 28-49 run up to the first
\* store access of the reconciler they call; an ignored event returns.
handle_secret_change(p) ==
    /\ h[p].pc = "idle"
    /\ \E type \in EventTypes, name \in SecretNames :
       \E meta \in Metas(name), data \in 1..secrets[name] :
          LET body  == [metadata |-> meta, data |-> data]
              route == Dispatch(type, meta, name)
              isCa  == route = <<"refresh_with_new_cluster_ca">>
              isCl  == route = <<"refresh_with_new_client_secret">>
          IN  h' = [h EXCEPT ![p] =
                      [IdleLocals EXCEPT
                         !.type = type,
                         !.body = body, !.route = route,
                         !.todo = IF isCa THEN registry_names ELSE {},
                         !.pc = IF isCa /\ registry_names # {} THEN "ca_loop"
                                ELSE IF isCl THEN "client"
                                ELSE "done"]]
    /\ UNCHANGED <<store, rotations, resolver>>

\* The create_secret call of a reconciler: lines 78-86 pass the event body
\* as cluster_ca_secret, lines 130-138 as client_secret.
SecretFor(route, body, kafka_user_secret_name) ==
    LET cluster == body.metadata.labels[ClusterLabel]
    IN  IF route = <<"refresh_with_new_cluster_ca">>
        THEN create_secret(kafka_user_secret_name, cluster, body, None)
        ELSE create_secret(kafka_user_secret_name, cluster, None, body)

\* The calls of lines 59-86 and 111-138 that go to the store and can raise.
StoreCalls == {"get_ssr", "get_kafka_user", "create_secret"}

\* Lines 59-87 and 111-139 for registry `name`: get_ssr, get_api_version,
\* get_kafka_user, the read of status.secret (a KafkaUser without status
\* raises KeyError, which nothing in the handler catches), then create_secret
\* and the read of its resourceVersion. The records fetched before
\* create_secret do not change while the handler runs, so the reads and the
\* write are one step. An exception of a store call ends the invocation, as
\* the KeyError does.
Generate(p, name) ==
    LET ssr_body == get_ssr(name)
        strimzi_api_version == get_api_version(name, ssr_body.spec).value
        kafkauser == get_kafka_user(name, strimzi_api_version)
        begun == [h[p] EXCEPT !.todo = @ \ {name},
                              !.registry_name = name,
                              !.strimzi_api_version = strimzi_api_version,
                              !.attempts = Append(@, name)]
        hasSecret == "status" \in DOMAIN kafkauser /\ "secret" \in DOMAIN kafkauser.status
    IN  \/ /\ hasSecret
           /\ LET kafka_user_secret_name == kafkauser.status.secret
                  secret == SecretFor(h[p].route, h[p].body, kafka_user_secret_name)
              IN  /\ jks' = [jks EXCEPT ![kafka_user_secret_name] = secret]
                  /\ rv' = secret.metadata.resourceVersion
                  /\ h' = [h EXCEPT ![p] =
                             [begun EXCEPT
                                !.kafka_user_secret_name = kafka_user_secret_name,
                                !.secret_version = secret.metadata.resourceVersion,
                                !.generated = Append(@, secret),
                                !.pc = "get_deployment"]]
        \/ /\ ~hasSecret
           /\ h' = [h EXCEPT ![p] = [begun EXCEPT !.error = "KeyError",
                                                  !.pc = "failed"]]
           /\ UNCHANGED <<jks, rv>>
        \* the store refuses one of the calls: get_ssr, get_kafka_user, or
        \* (the KafkaUser having its status) create_secret
        \/ /\ \E call \in StoreCalls :
                 /\ call = "create_secret" => hasSecret
                 /\ h' = [h EXCEPT ![p] = [begun EXCEPT !.error = call,
                                                        !.pc = "failed"]]
           /\ UNCHANGED <<jks, rv>>

\* refresh_with_new_cluster_ca, lines 56-87: the for loop takes the next
\* registry of the set (a set has no order).
ca_generate_secret(p) ==
    /\ h[p].pc = "ca_loop"
    /\ \E registry_name \in h[p].todo : Generate(p, registry_name)
    /\ UNCHANGED <<registry_names, secrets, kafkausers, deployments, rotations, resolver>>

\* refresh_with_new_client_secret, lines 108-139.
client_generate_secret(p) ==
    /\ h[p].pc = "client"
    /\ LET kafka_username == h[p].body.metadata.name
       IN  Generate(p, kafka_username)
    /\ UNCHANGED <<registry_names, secrets, kafkausers, deployments, rotations, resolver>>

\* Lines 89-94 and 141-146.
fetch_deployment(p) ==
    /\ h[p].pc = "get_deployment"
    /\ h' = [h EXCEPT ![p].deployment = get_deployment(h[p].registry_name),
                      ![p].pc = "update_deployment"]
    /\ UNCHANGED <<store, rotations, resolver>>

RECURSIVE ApplyCalls(_, _)
ApplyCalls(deps, calls) ==
    IF calls = <<>> THEN deps
    ELSE ApplyCalls(patch_namespaced_deployment(deps, Head(calls)), Tail(calls))

\* Lines 96-102 and 148-154; the cluster-CA loop then goes on to its next
\* registry, or ends.
refresh_deployment(p) ==
    /\ h[p].pc = "update_deployment"
    /\ LET calls == update_deployment(h[p].deployment, h[p].secret_version,
                                      h[p].registry_name)
       IN  /\ deployments' = ApplyCalls(deployments, calls)
           /\ h' = [h EXCEPT ![p].calls = @ \o calls,
                             ![p].pc = IF h[p].todo # {} THEN "ca_loop" ELSE "done"]
    /\ UNCHANGED <<registry_names, secrets, kafkausers, jks, rv, rotations, resolver>>

\* Strimzi rotates the cluster CA or a client certificate.
Rotate ==
    /\ \E n \in {CaSecretName} \cup registry_names :
          secrets' = [secrets EXCEPT ![n] = @ + 1]
    /\ rotations < MaxRotations
    /\ rotations' = rotations + 1
    /\ UNCHANGED <<registry_names, kafkausers, jks, deployments, rv, h, resolver>>

Next ==
    \/ Rotate
    \/ \E p \in Procs :
          \/ handle_secret_change(p)
          \/ ca_generate_secret(p)
          \/ client_generate_secret(p)
          \/ fetch_deployment(p)
          \/ refresh_deployment(p)

Spec == Init /\ [][Next]_vars

\* --------------------------------- update_deployment on its own inputs
\* A Deployment of that name as the store may hold it: as created, or with
\* the jksVersion annotation an earlier refresh left.
StoredDeployments(name) ==
    {LiveDeployment(name, 0)} \cup
    {[LiveDeployment(name, 0) EXCEPT
        !.metadata.annotations = Put(@, secret_version_key, v)] :
     v \in 0..MaxSecretVersion}

\* Locals of a Client-Secret reconciliation of registry `name` that has
\* fetched `deployment` and is about to call update_deployment with
\* secret_version (line 148).
AtUpdate(name, deployment, secret_version) ==
    [IdleLocals EXCEPT
       !.pc = "update_deployment", !.type = "MODIFIED",
       !.body = [metadata |-> [name |-> name,
                               labels |-> (ClusterLabel :> cluster_name)],
                 data |-> 1],
       !.route = <<"refresh_with_new_client_secret">>,
       !.registry_name = name, !.kafka_user_secret_name = name,
       !.strimzi_api_version = get_api_version(name, get_ssr(name).spec).value,
       !.secret_version = secret_version,
       !.deployment = deployment,
       !.attempts = <<name>>,
       !.generated = <<[metadata |-> [name |-> name \o "-jks",
                                      resourceVersion |-> secret_version],
                        ca |-> 1, client |-> 1]>>]

InitRefresher ==
    /\ registry_names = {"r1", "r2"}
    /\ secrets = [n \in SecretNames |-> 1]
    /\ kafkausers = [n \in registry_names |-> ReadyKafkaUser(n)]
    /\ deployments \in [registry_names -> UNION {StoredDeployments(n) : n \in registry_names}]
    /\ \A n \in registry_names : deployments[n] \in StoredDeployments(n)
    /\ \E name \in [Procs -> registry_names], v \in [Procs -> 0..MaxSecretVersion] :
          /\ h = [p \in Procs |-> AtUpdate(name[p], deployments[name[p]], v[p])]
          /\ jks = [n \in registry_names |->
                      [metadata |-> [name |-> n \o "-jks", resourceVersion |-> 0],
                       ca |-> 1, client |-> 1]]
    /\ rv = MaxSecretVersion
    /\ rotations = 0
    /\ resolver = NoCall

NextRefresher == \E p \in Procs : refresh_deployment(p)

SpecRefresher == InitRefresher /\ [][NextRefresher]_vars

\* ----------------------- get_kafka_bootstrap_server on its own inputs
\* Sequences over S of length at most n.
RECURSIVE SeqsUpTo(_, _)
SeqsUpTo(S, n) ==
    IF n = 0 THEN {<<>>}
    ELSE LET shorter == SeqsUpTo(S, n - 1)
         IN  shorter \cup {Append(q, x) : q \in shorter, x \in S}

\* Entries of status.listeners: name and type optional; bootstrapServers
\* given (beside addresses), or addresses alone (two of them), empty, or
\* missing.
StatusEntries ==
    LET names == {EmptyDict} \cup {"name" :> n : n \in {"tls", "ext"}}
        types == {EmptyDict} \cup {"type" :> t : t \in {"tls", "internal"}}
        address == [host |-> "h", port |-> 9092]
        second == [host |-> "h2", port |-> 9094]
        servers == {EmptyDict,
                    "addresses" :> <<>>,
                    "addresses" :> <<address, second>>,
                    ("bootstrapServers" :> "bs:9093") @@ ("addresses" :> <<address>>)}
    IN  {n @@ t @@ a : n \in names, t \in types, a \in servers}

\* The status of a Kafka resource: one without listeners, or one listing up
\* to n entries.
KafkaStatuses(n) ==
    {[conditions |-> <<>>]} \cup
    {[listeners |-> l] : l \in SeqsUpTo(StatusEntries, n)}

\* spec.kafka.listeners of a current-generation resource.
SpecListeners ==
    {<<>>,
     <<[name |-> "tls", type |-> "internal"]>>,
     <<[name |-> "tls", type |-> "internal"], [name |-> "ext", type |-> "route"]>>,
     <<[name |-> "ext", type |-> "route"], [name |-> "plain", type |-> "internal"]>>}

\* Both generations declare their listeners as a list here (v1beta1 accepts
\* the list form too); the legacy path does not read it.
ApiVersions == {"kafka.strimzi.io/v1beta1", "kafka.strimzi.io/v1beta2"}

\* Kafka resources without status, or with one of KafkaStatuses(n).
KafkaResources(n) ==
    LET specs == {[apiVersion |-> v, spec |-> [kafka |-> [listeners |-> l]]] :
                    v \in ApiVersions, l \in SpecListeners}
    IN  specs \cup
        {[apiVersion |-> k.apiVersion, spec |-> k.spec, status |-> st] :
           k \in specs, st \in KafkaStatuses(n)}

InitBootstrap ==
    /\ registry_names = {"r1", "r2"}
    /\ secrets = [n \in SecretNames |-> 1]
    /\ kafkausers = [n \in registry_names |-> ReadyKafkaUser(n)]
    /\ jks = [n \in registry_names |->
                [metadata |-> [name |-> n \o "-jks", resourceVersion |-> 0],
                 ca |-> 1, client |-> 1]]
    /\ deployments = [n \in registry_names |-> LiveDeployment(n, 0)]
    /\ rv = 0
    /\ h = [p \in Procs |-> IdleLocals]
    /\ rotations = 0
    /\ \E kafka \in KafkaResources(MaxStatusListeners), listener_name \in {"tls", "ext"} :
          resolver = [pc |-> "call", kafka |-> kafka, listener_name |-> listener_name]

\* The deployment-manifest builder calls the resolver.
resolve_bootstrap_server ==
    /\ resolver.pc = "call"
    /\ resolver' = [pc |-> "done", kafka |-> resolver.kafka,
                    listener_name |-> resolver.listener_name,
                    result |-> get_kafka_bootstrap_server(resolver.kafka,
                                                          resolver.listener_name)]
    /\ UNCHANGED <<store, h, rotations>>

NextBootstrap == resolve_bootstrap_server

SpecBootstrap == InitBootstrap /\ [][NextBootstrap]_vars

\* ----------------------------------- get_api_version on its own inputs
\* The spec of a StrimziSchemaRegistry: each of strimziVersion,
\* strimzi-version and listener set or left out.
RegistrySpecs ==
    LET versions == {"v1beta1", "v1beta2", "v1alpha1"}
        new == {EmptyDict} \cup {"strimziVersion" :> v : v \in versions}
        old == {EmptyDict} \cup {"strimzi-version" :> v : v \in versions}
        listener == {EmptyDict, "listener" :> "tls"}
    IN  {n @@ o @@ l : n \in new, o \in old, l \in listener}

InitApiVersion ==
    /\ registry_names \in RegistrySets
    /\ secrets = [n \in SecretNames |-> 1]
    /\ kafkausers = [n \in registry_names |-> ReadyKafkaUser(n)]
    /\ jks = [n \in registry_names |->
                [metadata |-> [name |-> n \o "-jks", resourceVersion |-> 0],
                 ca |-> 1, client |-> 1]]
    /\ deployments = [n \in registry_names |-> LiveDeployment(n, 0)]
    /\ rv = 0
    /\ h = [p \in Procs |-> IdleLocals]
    /\ rotations = 0
    /\ \E registry_name \in registry_names, spec \in RegistrySpecs :
          resolver = [pc |-> "call", registry_name |-> registry_name, spec |-> spec]

\* A reconciler calls get_api_version (secretwatcher.py lines 64, 116); the
\* call returns, and the reconciler goes on with the value.
resolve_api_version ==
    /\ resolver.pc = "call"
    /\ resolver' = [pc |-> "done", registry_name |-> resolver.registry_name,
                    spec |-> resolver.spec,
                    result |-> get_api_version(resolver.registry_name, resolver.spec)]
    /\ UNCHANGED <<store, h, rotations>>

NextApiVersion == resolve_api_version

SpecApiVersion == InitApiVersion /\ [][NextApiVersion]_vars

\* ====================================================== properties
\* The invocation with locals l has been handed its event.
Invoked(l) == l.pc # "idle"
EventName(l) == l.body.metadata.name
\* The event is ADDED or MODIFIED and carries this cluster's label.
Relevant(l) ==
    /\ l.type \in {"ADDED", "MODIFIED"}
    /\ "labels" \in DOMAIN l.body.metadata
    /\ ClusterLabel \in DOMAIN l.body.metadata.labels
    /\ l.body.metadata.labels[ClusterLabel] = cluster_name
Ended(l) == l.pc \in {"done", "failed"}
\* How many times x occurs in the sequence s.
Count(s, x) == Cardinality({i \in DOMAIN s : s[i] = x})

\* C1: an event that is not ADDED/MODIFIED, or whose strimzi.io/cluster label
\* is absent or differs from clusterName, calls neither reconciler, and the
\* step that handles it leaves the deployments, the Secrets and the managed
\* registry set as they were, whatever the event's name.
C1_IrrelevantEventIsNoOp ==
    [][\A p \in Procs :
          (Invoked(h'[p]) /\ ~Relevant(h'[p])) =>
             /\ h'[p].route = <<>>
             /\ h'[p].pc = "done"
             /\ h'[p].attempts = <<>> /\ h'[p].generated = <<>> /\ h'[p].calls = <<>>
             /\ (h[p].pc = "idle" => UNCHANGED store)]_vars

\* C1 witness: a DELETED event named as the cluster CA Secret, with this
\* cluster's label, and a MODIFIED event named as a managed registry, without
\* the label, have both been handled.
C1_Witness ==
    \E p, q \in Procs :
       /\ h[p].pc = "done" /\ h[p].type = "DELETED"
       /\ EventName(h[p]) = CaSecretName
       /\ h[p].body.metadata = [name |-> CaSecretName,
                                labels |-> (ClusterLabel :> cluster_name)]
       /\ h[q].pc = "done" /\ h[q].type = "MODIFIED"
       /\ EventName(h[q]) \in registry_names
       /\ "labels" \notin DOMAIN h[q].body.metadata

\* The event is one the filter passes on as a cluster CA change.
CaEvent(l) == Relevant(l) /\ EventName(l) = CaSecretName

\* C2: a relevant event named "{clusterName}-cluster-ca-cert" calls the
\* Cluster-CA Reconciler exactly once, and once that reconciliation has ended
\* every entry of registryNames has had exactly one refresh attempt.
C2_CaEventRefreshesEveryRegistry ==
    \A p \in Procs :
       (Invoked(h[p]) /\ CaEvent(h[p])) =>
          /\ h[p].route = <<"refresh_with_new_cluster_ca">>
          /\ Ended(h[p]) =>
                \A r \in registry_names : Count(h[p].attempts, r) = 1

\* C3: in the Cluster-CA Reconciler's fan-out, when the refresh of one
\* registry fails, every other registry still gets its refresh attempt in the
\* same reconciliation.
C3_FailureDoesNotAbortFanOut ==
    \A p \in Procs :
       (h[p].pc = "failed" /\ h[p].route = <<"refresh_with_new_cluster_ca">>) =>
          \A r \in registry_names \ {h[p].registry_name} :
             \E i \in DOMAIN h[p].attempts : h[p].attempts[i] = r

\* The event is one the filter passes on as a client certificate change.
ClientEvent(l) ==
    Relevant(l) /\ EventName(l) \in registry_names /\ EventName(l) # CaSecretName

\* C4: a relevant event named as one managed registry (not as the cluster CA
\* Secret) calls the Client-Secret Reconciler for that registry only: every
\* patch the invocation issues is of the deployment of that name, there is
\* exactly one when the reconciliation completes, and no step of the
\* invocation changes the deployment or the generated Secret of another
\* managed registry.
C4_ClientEventScopedToItsRegistry ==
    [][\A p \in Procs :
          (Invoked(h'[p]) /\ ClientEvent(h'[p])) =>
             LET name == EventName(h'[p]) IN
             /\ h'[p].route = <<"refresh_with_new_client_secret">>
             /\ \A i \in DOMAIN h'[p].attempts : h'[p].attempts[i] = name
             /\ \A i \in DOMAIN h'[p].calls :
                   /\ h'[p].calls[i].op = "patch_namespaced_deployment"
                   /\ h'[p].calls[i].name = name
             /\ Len(h'[p].calls) <= 1
             /\ (h'[p].pc = "done" => Len(h'[p].calls) = 1)
             /\ (h'[p] # h[p] =>
                   \A x \in registry_names \ {name} :
                      deployments'[x] = deployments[x] /\ jks'[x] = jks[x])]_vars

\* C4 witness: the reconciliation of a client certificate event for r2 has
\* completed and patched r2's deployment, with r1's deployment as created.
C4_Witness ==
    \E p \in Procs :
       /\ h[p].pc = "done" /\ ClientEvent(h[p]) /\ EventName(h[p]) = "r2"
       /\ Len(h[p].calls) = 1
       /\ deployments["r2"] # LiveDeployment("r2", 0)
       /\ deployments["r1"] = LiveDeployment("r1", 0)

\* The API call an update_deployment step of p has just added to its history.
LastCall(l) == l.calls[Len(l.calls)]

\* C5: update_deployment sets "<prefix>/jksVersion" in the deployment's
\* pod-template metadata (spec.template.metadata.annotations, where
\* create_deployment puts it) to the new Secret version, and writes no other
\* field of the Deployment before patching: the patch body is the fetched
\* deployment with that one annotation set.
C5_RefresherSetsPodTemplateAnnotation ==
    [][\A p \in Procs :
          (h[p].pc = "update_deployment" /\ h'[p].pc # "update_deployment") =>
             /\ Len(h'[p].calls) = Len(h[p].calls) + 1
             /\ LastCall(h'[p]).body =
                   [h[p].deployment EXCEPT
                      !.spec.template.metadata.annotations =
                         Put(@, secret_version_key, h[p].secret_version)]]_vars

\* C6: two reconciliations for different registries do not interfere: in
\* every interleaving each patches only its own registry's deployment, and
\* once both have ended each deployment and generated Secret is what its own
\* reconciliation, run alone from the state as created, leaves.
Alone(l) ==
    LET name == EventName(l) IN
    IF l.pc = "done"
    THEN /\ Len(l.generated) = 1
         /\ jks[name] = l.generated[1]
         /\ l.secret_version = l.generated[1].metadata.resourceVersion
         /\ deployments[name] =
               ApplyCalls(name :> LiveDeployment(name, 0),
                          update_deployment(LiveDeployment(name, 0),
                                            l.secret_version, name))[name]
    ELSE /\ l.generated = <<>> /\ l.calls = <<>>
         /\ jks[name].metadata.resourceVersion = 0
         /\ deployments[name] = LiveDeployment(name, 0)

C6_DifferentRegistriesDoNotInterfere ==
    \A p, q \in Procs :
       (/\ p # q
        /\ Invoked(h[p]) /\ ClientEvent(h[p])
        /\ Invoked(h[q]) /\ ClientEvent(h[q])
        /\ EventName(h[p]) # EventName(h[q])) =>
          /\ \A i \in DOMAIN h[p].calls : h[p].calls[i].name = EventName(h[p])
          /\ (Ended(h[p]) /\ Ended(h[q])) => Alone(h[p])

\* C6 witness: the reconciliations of r1 and r2 have both completed, r2's
\* Secret having been generated first and r1's deployment patched first.
C6_Witness ==
    \E p, q \in Procs :
       /\ h[p].pc = "done" /\ ClientEvent(h[p]) /\ EventName(h[p]) = "r1"
       /\ h[q].pc = "done" /\ ClientEvent(h[q]) /\ EventName(h[q]) = "r2"
       /\ h[q].secret_version < h[p].secret_version
       /\ deployments["r1"] # LiveDeployment("r1", 0)
       /\ deployments["r2"] # LiveDeployment("r2", 0)

\* C7: the certificate material a reconciliation regenerates is derived from
\* the Secrets the store holds when it is generated, not from the event's
\* payload, also when the event is stale.
C7_MaterialFromCurrentStore ==
    [][\A p \in Procs :
          Len(h'[p].generated) > Len(h[p].generated) =>
             LET secret == h'[p].generated[Len(h'[p].generated)] IN
             /\ secret.ca = secrets[CaSecretName]
             /\ secret.client = secrets[h'[p].kafka_user_secret_name]]_vars

\* C8: every call of update_deployment issues exactly one patch, of the named
\* deployment, whose body carries secret_version in the jksVersion annotation
\* update_deployment sets, and the store then holds it; also when that
\* annotation already held the same value.
C8_RefresherAlwaysPatches ==
    [][\A p \in Procs :
          (h[p].pc = "update_deployment" /\ h'[p].pc # "update_deployment") =>
             /\ Len(h'[p].calls) = Len(h[p].calls) + 1
             /\ LastCall(h'[p]).op = "patch_namespaced_deployment"
             /\ LastCall(h'[p]).name = h[p].registry_name
             /\ LastCall(h'[p]).body.metadata.annotations[secret_version_key]
                   = h[p].secret_version
             /\ deployments'[h[p].registry_name].metadata.annotations[secret_version_key]
                   = h[p].secret_version]_vars

\* C8 witness: update_deployment has patched a deployment whose fetched
\* annotation already held the version it was called with.
C8_Witness ==
    \E p \in Procs :
       /\ h[p].pc = "done" /\ Len(h[p].calls) = 1
       /\ secret_version_key \in DOMAIN h[p].deployment.metadata.annotations
       /\ h[p].deployment.metadata.annotations[secret_version_key] = h[p].secret_version
       /\ h[p].calls[1].body = h[p].deployment

\* The resolver has been called and has returned or raised.
Resolved == resolver.pc = "done"
Legacy(kafka) == kafka["apiVersion"] = "kafka.strimzi.io/v1beta1"
\* The listener is declared by name in spec.kafka.listeners.
Declared(kafka, listener_name) ==
    \E i \in DOMAIN kafka["spec"]["kafka"]["listeners"] :
       kafka["spec"]["kafka"]["listeners"][i]["name"] = listener_name
\* A RetryableError with suggested delay 10.
RetryIn10(result) == result.kind = "TemporaryError" /\ result.delay = <<10>>

\* C9 as stated: a Kafka resource of either generation without
\* status.listeners fails with a RetryableError of delay 10 for every
\* requested listener name.
C9_NoStatusRetriesIn10 ==
    (Resolved /\ NoStatusListeners(resolver.kafka)) => RetryIn10(resolver.result)

\* C9 amended: without status.listeners the resolver fails with a
\* RetryableError of delay 10 for every requested listener on a v1beta1
\* resource, and on a later one for every requested listener name that
\* spec.kafka.listeners declares.
C9_NoStatusRetriesIn10_DeclaredName ==
    (/\ Resolved
     /\ NoStatusListeners(resolver.kafka)
     /\ Legacy(resolver.kafka) \/ Declared(resolver.kafka, resolver.listener_name)) =>
       /\ RetryIn10(resolver.result)
       /\ resolver.result.msg = "Could not get status.listeners from Kafka resource."

\* C9 witness: a v1beta2 resource with a status without listeners, asked for
\* a declared listener, has been answered with the retry in 10.
C9_Witness ==
    /\ Resolved
    /\ ~Legacy(resolver.kafka)
    /\ "status" \in DOMAIN resolver.kafka
    /\ NoStatusListeners(resolver.kafka)
    /\ Declared(resolver.kafka, resolver.listener_name)
    /\ RetryIn10(resolver.result)

\* The names spec.kafka.listeners declares, comma separated.
DeclaredNamesText(spec_listeners) ==
    CASE Len(spec_listeners) = 0 -> ""
      [] Len(spec_listeners) = 1 -> spec_listeners[1]["name"]
      [] OTHER -> spec_listeners[1]["name"] \o ", " \o spec_listeners[2]["name"]

\* The resource with its status removed.
WithoutStatus(kafka) == [apiVersion |-> kafka.apiVersion, spec |-> kafka.spec]

\* C10: on a current-generation resource, a listener name that
\* spec.kafka.listeners does not declare fails with a RetryableError whose
\* message lists the declared names, whatever status.listeners holds and
\* also when it is missing.
C10_UndeclaredNameFailsFirst ==
    (/\ Resolved
     /\ ~Legacy(resolver.kafka)
     /\ ~Declared(resolver.kafka, resolver.listener_name)) =>
       /\ resolver.result.kind = "TemporaryError"
       /\ resolver.result.msg =
             "Listener named " \o resolver.listener_name
             \o " is not known. Available listeners are "
             \o DeclaredNamesText(resolver.kafka.spec.kafka.listeners)
       /\ resolver.result =
             get_kafka_bootstrap_server(WithoutStatus(resolver.kafka),
                                        resolver.listener_name)

\* C10 witness: asked for "tls" on a resource that declares ext and plain
\* and whose status lists a formattable entry named tls, the resolver has
\* raised the unknown-listener error naming ext and plain.
C10_Witness ==
    /\ Resolved
    /\ ~Legacy(resolver.kafka)
    /\ resolver.listener_name = "tls"
    /\ Len(resolver.kafka.spec.kafka.listeners) = 2
    /\ ~Declared(resolver.kafka, "tls")
    /\ ~NoStatusListeners(resolver.kafka)
    /\ \E i \in DOMAIN resolver.kafka.status.listeners :
          LET e == resolver.kafka.status.listeners[i]
          IN  "name" \in DOMAIN e /\ e["name"] = "tls" /\ "bootstrapServers" \in DOMAIN e
    /\ resolver.result.kind = "TemporaryError"
    /\ resolver.result.msg =
          "Listener named tls is not known. Available listeners are ext, plain"

\* The status entry can be formatted: it has bootstrapServers or a first
\* address.
Formattable(e) ==
    \/ "bootstrapServers" \in DOMAIN e
    \/ "addresses" \in DOMAIN e /\ e["addresses"] # <<>>
\* The type spec.kafka.listeners declares for the name (the last declaration
\* of it).
DeclaredType(kafka, listener_name) ==
    LET l == kafka["spec"]["kafka"]["listeners"]
        i == CHOOSE i \in DOMAIN l :
                /\ l[i]["name"] = listener_name
                /\ \A j \in DOMAIN l : l[j]["name"] = listener_name => j <= i
    IN  l[i]["type"]
\* The status entry matches the request by its name or by its type.
MatchesByName(e, listener_name) == "name" \in DOMAIN e /\ e["name"] = listener_name
MatchesByType(e, listener_type) == "type" \in DOMAIN e /\ e["type"] = listener_type
\* The types the status entries carry, in order, comma separated.
RECURSIVE ObservedTypesText(_)
ObservedTypesText(listeners) ==
    IF listeners = <<>> THEN ""
    ELSE LET rest == ObservedTypesText(Tail(listeners))
             e == Head(listeners)
         IN  IF "type" \notin DOMAIN e THEN rest
             ELSE IF Tail(listeners) = <<>> \/ rest = "" THEN e["type"]
             ELSE e["type"] \o ", " \o rest
\* A current-generation resource with status.listeners, asked for a declared
\* name, none of whose status entries matches and can be formatted.
ScanFindsNothing ==
    /\ Resolved
    /\ ~Legacy(resolver.kafka)
    /\ Declared(resolver.kafka, resolver.listener_name)
    /\ ~NoStatusListeners(resolver.kafka)
    /\ \A i \in DOMAIN resolver.kafka.status.listeners :
          LET e == resolver.kafka.status.listeners[i] IN
          ~ /\ Formattable(e)
            /\ \/ MatchesByName(e, resolver.listener_name)
               \/ MatchesByType(e, DeclaredType(resolver.kafka, resolver.listener_name))

\* C11: on a current-generation resource asked for a declared listener name,
\* with status.listeners present, a scan that ends with no entry that matches
\* and can be formatted fails with the non-retryable error whose message
\* lists the types the status entries carry, never with a RetryableError.
C11_NoMatchIsFatalWithTypes ==
    ScanFindsNothing =>
       /\ resolver.result.kind = "Error"
       /\ resolver.result.msg =
             "Could not find address of a listener named "
             \o resolver.listener_name
             \o " from the Kafka resource. Available names: "
             \o ObservedTypesText(resolver.kafka.status.listeners)

\* The status entry matches the request and can be formatted.
Usable(kafka, listener_name, e) ==
    /\ Formattable(e)
    /\ \/ MatchesByName(e, listener_name)
       \/ MatchesByType(e, DeclaredType(kafka, listener_name))
\* A current-generation resource with status.listeners, asked for a declared
\* name, one of whose status entries matches and can be formatted.
ScanFindsEntry ==
    /\ Resolved
    /\ ~Legacy(resolver.kafka)
    /\ Declared(resolver.kafka, resolver.listener_name)
    /\ ~NoStatusListeners(resolver.kafka)
    /\ \E i \in DOMAIN resolver.kafka.status.listeners :
          Usable(resolver.kafka, resolver.listener_name,
                 resolver.kafka.status.listeners[i])
\* The first such entry.
FirstUsable(kafka, listener_name) ==
    LET l == kafka.status.listeners
        i == CHOOSE i \in DOMAIN l :
                /\ Usable(kafka, listener_name, l[i])
                /\ \A j \in 1..(i - 1) : ~Usable(kafka, listener_name, l[j])
    IN  l[i]

\* C12: on a current-generation resource, when the matching status listener
\* has bootstrapServers the resolver returns that value verbatim, whatever
\* its addresses hold; when it has no bootstrapServers and a non-empty
\* addresses array the resolver returns "host:port" of the first address.
C12_AddressFormatting ==
    ScanFindsEntry =>
       LET e == FirstUsable(resolver.kafka, resolver.listener_name) IN
       /\ resolver.result.kind = "return"
       /\ "bootstrapServers" \in DOMAIN e =>
             resolver.result.value = e["bootstrapServers"]
       /\ "bootstrapServers" \notin DOMAIN e =>
             resolver.result.value =
                e["addresses"][1]["host"] \o ":" \o ToString(e["addresses"][1]["port"])

\* C12 witness: the entry named as requested has no bootstrapServers and two
\* addresses, h:9092 first, and the resolver has returned "h:9092".
C12_Witness ==
    /\ ScanFindsEntry
    /\ LET e == FirstUsable(resolver.kafka, resolver.listener_name) IN
       /\ MatchesByName(e, resolver.listener_name)
       /\ "bootstrapServers" \notin DOMAIN e
       /\ Len(e["addresses"]) = 2
    /\ resolver.result = [kind |-> "return", value |-> "h:9092"]

\* The address of a status entry that can be formatted.
AddressOf(e) ==
    IF "bootstrapServers" \in DOMAIN e THEN e["bootstrapServers"]
    ELSE e["addresses"][1]["host"] \o ":" \o ToString(e["addresses"][1]["port"])
\* The status entry without its name field.
Nameless(e) == [k \in (DOMAIN e) \ {"name"} |-> e[k]]
\* The resource with the name fields of its status entries removed and with
\* no listener declared in its spec.
TypesOnly(kafka) ==
    LET bare == [apiVersion |-> kafka["apiVersion"],
                 spec |-> [kafka |-> [listeners |-> <<>>]]]
    IN  IF "status" \notin DOMAIN kafka THEN bare
        ELSE IF "listeners" \notin DOMAIN kafka["status"]
        THEN bare @@ [status |-> kafka["status"]]
        ELSE bare @@ [status |-> [listeners |->
                 [i \in DOMAIN kafka["status"]["listeners"] |->
                    Nameless(kafka["status"]["listeners"][i])]]]
\* The first status entry of the requested type that can be formatted, in
\* a one-element sequence; <<>> when there is none.
FirstOfType(listeners, listener_type) ==
    LET ok == {i \in DOMAIN listeners :
                 MatchesByType(listeners[i], listener_type) /\ Formattable(listeners[i])}
    IN  IF ok = {} THEN <<>>
        ELSE <<listeners[CHOOSE i \in ok : \A j \in ok : i <= j]>>

\* C13: for a v1beta1 resource the resolver returns the address of the first
\* status entry whose type equals the requested value and that can be
\* formatted, whatever name fields the entries carry, and its outcome does
\* not depend on those name fields or on spec.kafka.listeners.
C13_LegacyKeyedByType ==
    (Resolved /\ Legacy(resolver.kafka)) =>
       /\ resolver.result =
             get_kafka_bootstrap_server(TypesOnly(resolver.kafka),
                                        resolver.listener_name)
       /\ ~NoStatusListeners(resolver.kafka) =>
             LET found == FirstOfType(resolver.kafka.status.listeners,
                                      resolver.listener_name)
             IN  IF found # <<>>
                 THEN resolver.result = [kind |-> "return",
                                         value |-> AddressOf(found[1])]
                 ELSE resolver.result.kind # "return"

\* C13 witness: a v1beta1 resource that declares listeners, asked for "tls",
\* whose first status entry is named tls with type internal and whose second
\* is named ext with type tls; the resolver has returned the second's
\* address.
C13_Witness ==
    /\ Resolved /\ Legacy(resolver.kafka)
    /\ resolver.listener_name = "tls"
    /\ resolver.kafka.spec.kafka.listeners # <<>>
    /\ ~NoStatusListeners(resolver.kafka)
    /\ LET l == resolver.kafka.status.listeners IN
       /\ Len(l) = 2
       /\ MatchesByName(l[1], "tls") /\ MatchesByType(l[1], "internal")
       /\ "bootstrapServers" \in DOMAIN l[1]
       /\ MatchesByName(l[2], "ext") /\ MatchesByType(l[2], "tls")
       /\ "bootstrapServers" \notin DOMAIN l[2] /\ Formattable(l[2])
    /\ resolver.result = [kind |-> "return", value |-> "h:9092"]

\* get_api_version has been called and has returned.
VersionResolved == resolver.pc = "done"
\* x is one of the warnings logged.
Logged(warnings, x) == \E i \in DOMAIN warnings : warnings[i] = x

\* C14: a configuration without strimziVersion and with the deprecated
\* strimzi-version yields the deprecated key's value as it is, logs the
\* deprecation warning, and the call returns (the warning aborts nothing).
C14_DeprecatedKeyWarns ==
    (/\ VersionResolved
     /\ "strimziVersion" \notin DOMAIN resolver.spec
     /\ "strimzi-version" \in DOMAIN resolver.spec) =>
       /\ resolver.result.value = resolver.spec["strimzi-version"]
       /\ Logged(resolver.result.warnings, DeprecatedVersionWarning)

\* C15: get_api_version always returns a value: strimziVersion's when that
\* key is set, whatever strimzi-version holds, and "v1beta2" when neither key
\* is set, then logging one warning that names the registry and the default.
C15_ApiVersionAlwaysResolves ==
    VersionResolved =>
       /\ "value" \in DOMAIN resolver.result
       /\ "strimziVersion" \in DOMAIN resolver.spec =>
             resolver.result.value = resolver.spec["strimziVersion"]
       /\ (/\ "strimziVersion" \notin DOMAIN resolver.spec
           /\ "strimzi-version" \notin DOMAIN resolver.spec) =>
             /\ resolver.result.value = "v1beta2"
             /\ Len(resolver.result.warnings) = 1
             /\ resolver.result.warnings[1].registry = resolver.registry_name
             /\ resolver.result.warnings[1].default = "v1beta2"

\* C15 witness: a configuration that sets only a listener has been resolved
\* to "v1beta2" with the warning logged.
C15_Witness ==
    /\ VersionResolved
    /\ DOMAIN resolver.spec = {"listener"}
    /\ resolver.result.value = "v1beta2"
    /\ resolver.result.warnings # <<>>

\* C16: every Secret event calls at most one reconciler. Among ADDED and
\* MODIFIED events with this cluster's label, one named
\* "{clusterName}-cluster-ca-cert" runs the Cluster-CA Reconciler only, also
\* when that name is in registryNames; one named as another managed registry
\* runs the Client-Secret Reconciler only; any other is ignored, and the step
\* that handles it changes nothing in the store.
C16_AtMostOneReconciler ==
    [][\A p \in Procs :
          Invoked(h'[p]) =>
             LET l == h'[p]
                 name == EventName(l)
             IN  /\ Len(l.route) <= 1
                 /\ l.pc \in {"ca_loop"} => l.route = <<"refresh_with_new_cluster_ca">>
                 /\ l.pc \in {"client"} => l.route = <<"refresh_with_new_client_secret">>
                 /\ Relevant(l) =>
                       /\ name = CaSecretName =>
                             /\ l.route = <<"refresh_with_new_cluster_ca">>
                             /\ l.pc # "client"
                       /\ (name # CaSecretName /\ name \in registry_names) =>
                             /\ l.route = <<"refresh_with_new_client_secret">>
                             /\ l.pc # "ca_loop"
                             /\ \A i \in DOMAIN l.attempts : l.attempts[i] = name
                       /\ (name # CaSecretName /\ name \notin registry_names) =>
                             /\ l.route = <<>>
                             /\ l.pc = "done"
                             /\ l.attempts = <<>> /\ l.generated = <<>>
                             /\ l.calls = <<>>
                             /\ (h[p].pc = "idle" => UNCHANGED store)]_vars

\* C16 witness: with the cluster CA Secret's name among registryNames, a
\* MODIFIED event of that name has run the Cluster-CA Reconciler over both
\* registries, and a labelled MODIFIED event named "unrelated" has been
\* ignored.
C16_Witness ==
    /\ CaSecretName \in registry_names
    /\ \E p, q \in Procs :
          /\ h[p].pc = "done" /\ h[p].type = "MODIFIED" /\ Relevant(h[p])
          /\ EventName(h[p]) = CaSecretName
          /\ h[p].route = <<"refresh_with_new_cluster_ca">>
          /\ Len(h[p].attempts) = 2 /\ Len(h[p].calls) = 2
          /\ h[q].pc = "done" /\ h[q].type = "MODIFIED" /\ Relevant(h[q])
          /\ EventName(h[q]) = "unrelated"
          /\ h[q].route = <<>>

\* A current-generation resource with status.listeners has been asked for a
\* declared name.
Scanned ==
    /\ Resolved
    /\ ~Legacy(resolver.kafka)
    /\ Declared(resolver.kafka, resolver.listener_name)
    /\ ~NoStatusListeners(resolver.kafka)
\* The first entry of the list whose index is in the set, in a one-element
\* sequence; <<>> when the set is empty.
FirstIn(listeners, S) ==
    IF S = {} THEN <<>> ELSE <<listeners[CHOOSE i \in S : \A j \in S : i <= j]>>
\* The resolver's outcome is the address of that entry, and no address when
\* there is none.
AnswersWith(found) ==
    IF found = <<>> THEN resolver.result.kind # "return"
    ELSE resolver.result = [kind |-> "return", value |-> AddressOf(found[1])]

Matches(kafka, listener_name, e) ==
    IF Legacy(kafka) THEN MatchesByType(e, listener_name)
    ELSE \/ MatchesByName(e, listener_name)
         \/ MatchesByType(e, DeclaredType(kafka, listener_name))
\* The scan raises a lookup error on the entry: it matches and cannot be
\* formatted, or the comparison of types finds no type field.
RaisesLookupError(kafka, listener_name, e) ==
    \/ Matches(kafka, listener_name, e) /\ ~Formattable(e)
    \/ /\ "type" \notin DOMAIN e
       /\ Legacy(kafka) \/ ~MatchesByName(e, listener_name)

\* C18: in both generations an entry of status.listeners on which the scan
\* raises a lookup error (it matches and cannot be formatted, or it has no
\* type to compare) is passed over: when a later entry is the first that
\* matches and can be formatted, the resolver returns that entry's address.
C18_UnformattableEntrySkipped ==
    (/\ Resolved
     /\ ~NoStatusListeners(resolver.kafka)
     /\ Legacy(resolver.kafka) \/ Declared(resolver.kafka, resolver.listener_name)) =>
       LET l == resolver.kafka.status.listeners
           k == resolver.kafka
           n == resolver.listener_name
       IN  \A j \in DOMAIN l :
              (/\ Matches(k, n, l[j]) /\ Formattable(l[j])
               /\ \A i \in 1..(j - 1) : ~(Matches(k, n, l[i]) /\ Formattable(l[i]))
               /\ \E i \in 1..(j - 1) : RaisesLookupError(k, n, l[i])) =>
                 resolver.result = [kind |-> "return", value |-> AddressOf(l[j])]

\* C18 witness: on a current-generation resource asked for "tls", the first
\* status entry is named tls with an empty addresses array and the second
\* has the declared type and bootstrapServers; the resolver has returned the
\* second entry's bootstrapServers.
C18_Witness ==
    /\ Scanned
    /\ resolver.listener_name = "tls"
    /\ LET l == resolver.kafka.status.listeners IN
       /\ Len(l) = 2
       /\ MatchesByName(l[1], "tls")
       /\ "addresses" \in DOMAIN l[1] /\ l[1]["addresses"] = <<>>
       /\ "bootstrapServers" \notin DOMAIN l[1]
       /\ "name" \notin DOMAIN l[2]
       /\ MatchesByType(l[2], DeclaredType(resolver.kafka, "tls"))
       /\ "bootstrapServers" \in DOMAIN l[2]
    /\ resolver.result = [kind |-> "return", value |-> "bs:9093"]

\* The invocation has issued a patch in this step.
Patches(l, m) == Len(m.calls) > Len(l.calls)

\* C19: in either reconciler a registry's deployment is patched only after
\* the certificate Secret of that registry has been generated in the same
\* reconciliation, and the version the patch writes to the jksVersion
\* annotation is that Secret's resourceVersion; a reconciliation that fails
\* before or in the generation for a registry issues no patch for it.
C19_PatchFollowsOwnGeneration ==
    [][\A p \in Procs :
          /\ Patches(h[p], h'[p]) =>
                LET call == LastCall(h'[p])
                    made == h[p].generated
                IN  /\ Len(h'[p].calls) = Len(h[p].calls) + 1
                    /\ Len(made) = Len(h'[p].calls)
                    /\ made[Len(made)].metadata.name =
                          kafkausers[call.name].status.secret \o "-jks"
                    /\ call.name = h[p].attempts[Len(h[p].attempts)]
                    /\ call.body.metadata.annotations[secret_version_key] =
                          made[Len(made)].metadata.resourceVersion
          /\ (h'[p].pc = "failed") =>
                /\ Len(h'[p].generated) = Len(h'[p].calls)
                /\ \A i \in DOMAIN h'[p].calls :
                      h'[p].calls[i].name # h'[p].registry_name
          /\ Len(h'[p].calls) <= Len(h'[p].generated)]_vars

\* C19 witness: a Cluster-CA reconciliation has generated the Secret of one
\* registry and patched its deployment with that Secret's resourceVersion,
\* and has then failed in create_secret for the other registry, whose
\* deployment is as created.
C19_Witness ==
    \E p \in Procs :
       /\ h[p].pc = "failed" /\ h[p].error = "create_secret"
       /\ h[p].route = <<"refresh_with_new_cluster_ca">>
       /\ Len(h[p].attempts) = 2 /\ Len(h[p].generated) = 1 /\ Len(h[p].calls) = 1
       /\ h[p].calls[1].name = h[p].attempts[1]
       /\ h[p].calls[1].body.metadata.annotations[secret_version_key] =
             h[p].generated[1].metadata.resourceVersion
       /\ deployments[h[p].registry_name] = LiveDeployment(h[p].registry_name, 0)

\* p runs the Cluster-CA Reconciler and q the Client-Secret Reconciler of
\* registry r, which p refreshes too.
SameRegistry(p, q, r) ==
    /\ p # q
    /\ h[p].route = <<"refresh_with_new_cluster_ca">>
    /\ h[q].route = <<"refresh_with_new_client_secret">>
    /\ EventName(h[q]) = r
    /\ r \in registry_names
\* The resourceVersion of the Secret the invocation generated for r.
GeneratedFor(l, r) ==
    LET i == CHOOSE i \in DOMAIN l.generated :
                l.generated[i].metadata.name = r \o "-jks"
    IN  l.generated[i].metadata.resourceVersion
\* The version in the jksVersion annotation update_deployment writes.
JksVersion(deployment) == deployment.metadata.annotations[secret_version_key]

\* C20 as stated: when a Cluster-CA and a Client-Secret reconciliation of
\* the same registry have both completed, in whatever interleaving, the
\* deployment's jksVersion annotation is the resourceVersion of the
\* registry's most recently generated certificate Secret.
C20_NoStaleVersion ==
    \A p, q \in Procs : \A r \in registry_names :
       (SameRegistry(p, q, r) /\ h[p].pc = "done" /\ h[q].pc = "done") =>
          JksVersion(deployments[r]) = jks[r].metadata.resourceVersion

\* C20 amended: every update_deployment step writes the version of the
\* Secret its own reconciliation generated, whatever the annotation held,
\* and nothing else changes a deployment (the last write wins); so when a
\* Cluster-CA and a Client-Secret reconciliation of the same registry have
\* both completed, the annotation is the resourceVersion of the Secret one
\* of the two generated, not always the more recent one.
C20_LastPatchWins ==
    [][/\ \A p \in Procs :
             (h[p].pc = "update_deployment" /\ h'[p].pc # "update_deployment") =>
                JksVersion(deployments'[h[p].registry_name]) = h[p].secret_version
       /\ \A r \in registry_names :
             deployments'[r] # deployments[r] =>
                \E p \in Procs : /\ h[p].pc = "update_deployment"
                                 /\ h'[p].pc # "update_deployment"
                                 /\ h[p].registry_name = r
       /\ \A p, q \in Procs : \A r \in registry_names :
             (SameRegistry(p, q, r)' /\ h'[p].pc = "done" /\ h'[q].pc = "done") =>
                JksVersion(deployments'[r]) \in
                   {GeneratedFor(h'[p], r), GeneratedFor(h'[q], r)}]_vars

\* C20 witness: both reconciliations of r1 have completed, the Client-Secret
\* one having generated the later Secret, and the deployment's annotation
\* holds the version the Cluster-CA one generated, older than the Secret the
\* store holds.
C20_Witness ==
    \E p, q \in Procs :
       /\ SameRegistry(p, q, "r1") /\ h[p].pc = "done" /\ h[q].pc = "done"
       /\ GeneratedFor(h[p], "r1") < GeneratedFor(h[q], "r1")
       /\ jks["r1"].metadata.resourceVersion = GeneratedFor(h[q], "r1")
       /\ JksVersion(deployments["r1"]) = GeneratedFor(h[p], "r1")

====
